---- MODULE Spec2Model ----
(***************************************************************************)
(* State-machine model of previewBuilder.py (the pipeline coordinator that *)
(* allocates a numbered run directory and supervises the mesher, the       *)
(* renderer and the encoder) and of the parts of createTurntable.py that   *)
(* decide the renderer's exit status and its output.                       *)
(*                                                                         *)
(* A Python str is a sequence of tokens (single characters, or a literal   *)
(* such as "Fra:" that the code only ever handles as a whole); the empty   *)
(* str is << >>.  A path is a str, built with os.path.join.               *)
(***************************************************************************)
EXTENDS Integers, Sequences, FiniteSets, TLC

(***************************************************************************)
(* Bounds of the model.                                                    *)
(***************************************************************************)
\* number of invocations of the tool, one after the other, in one behaviour
MaxRuns == 2
\* capacity, in lines, of an OS pipe between a child and the supervisor
PipeCap == 1
\* largest run number present in the base location at the start
MaxStartNum == 2

\* a child writes at most this many lines: enough to fill a pipe and block
MaxLines == PipeCap + 1

Procs == 1..MaxRuns

(***************************************************************************)
(* Program constants.                                                      *)
(***************************************************************************)
MeshTotal == 100
RenderTotal == 180
EncodeTotal == 100
EncodeFrames == 180
FrameStart == 0
FrameEnd == 180
PadWidth == 3

(***************************************************************************)
(* Python str helpers.                                                     *)
(***************************************************************************)
Digits == <<"0", "1", "2", "3", "4", "5", "6", "7", "8", "9">>

DigitSet == {Digits[i] : i \in 1..10}

\* a decimal digit that is not ASCII (ARABIC-INDIC DIGIT THREE) and a digit
\* that is not decimal (SUPERSCRIPT TWO): str.isdigit() holds of both, \d
\* matches the first only, and int() raises ValueError on the second
ArabicThree == "<U+0663>"
SuperTwo == "<U+00B2>"

\* the characters \d matches and int() reads
DecimalSet == DigitSet \cup {ArabicThree}

DigitVal(c) == IF c = ArabicThree THEN 3 ELSE (CHOOSE i \in 1..10 : Digits[i] = c) - 1

\* the characters str.isspace() holds of: what \s matches and str.strip() removes
Whitespace ==
    {" ", "\t", "\n", "<U+000B>", "\f", "\r", "<U+001C>", "<U+001D>", "<U+001E>",
     "<U+001F>", "<U+0085>", "<U+00A0>", "<U+1680>", "<U+2000>", "<U+2001>",
     "<U+2002>", "<U+2003>", "<U+2004>", "<U+2005>", "<U+2006>", "<U+2007>",
     "<U+2008>", "<U+2009>", "<U+200A>", "<U+2028>", "<U+2029>", "<U+202F>",
     "<U+205F>", "<U+3000>"}

\* the Python None, kept apart from every str the model builds
None == <<"<None>">>

\* bool(x) for an optional str: None and "" are falsy
Truthy(x) == x /= None /\ x /= << >>

\* str.isdigit()
isdigit(s) == Len(s) > 0 /\ \A i \in 1..Len(s) : s[i] \in DecimalSet \cup {SuperTwo}

\* str.startswith
startswith(s, pre) ==
    Len(s) >= Len(pre) /\ SubSeq(s, 1, Len(pre)) = pre

\* str(n)
RECURSIVE str(_)
str(n) ==
    IF n < 0 THEN <<"-">> \o str(0 - n)
    ELSE IF n < 10 THEN <<Digits[n + 1]>>
    ELSE str(n \div 10) \o <<Digits[(n % 10) + 1]>>

\* format(n, "0<w>d"): zero-padded to at least w digits, never truncated
RECURSIVE zfill(_, _)
zfill(s, w) == IF Len(s) >= w THEN s ELSE zfill(<<"0">> \o s, w)

\* os.path.join(a, b): an absolute b stands alone, and no separator is added
\* to an empty a or to one that ends with it
join(a, b) ==
    IF b /= << >> /\ Head(b) = "/" THEN b
    ELSE IF a = << >> \/ a[Len(a)] = "/" THEN a \o b
    ELSE a \o <<"/">> \o b

\* d[2:]
Tail2(d) == SubSeq(d, 3, Len(d))

Max(S) == CHOOSE x \in S : \A y \in S : y <= x

Min2(a, b) == IF a < b THEN a ELSE b

\* str.strip(): leading and trailing whitespace removed
IsSpace(c) == c \in Whitespace

strip(line) ==
    LET keep == {i \in 1..Len(line) : ~IsSpace(line[i])}
    IN  IF keep = {} THEN << >>
        ELSE SubSeq(line, CHOOSE i \in keep : \A j \in keep : i <= j, Max(keep))

\* the whitespace int() drops around a number: that of str.strip() but for
\* the four separators U+001C..U+001F
IntWhitespace == Whitespace \ {"<U+001C>", "<U+001D>", "<U+001E>", "<U+001F>"}

int_strip(s) ==
    LET keep == {i \in 1..Len(s) : s[i] \notin IntWhitespace}
    IN  IF keep = {} THEN << >>
        ELSE SubSeq(s, CHOOSE i \in keep : \A j \in keep : i <= j, Max(keep))

\* what int() reads of a str: whitespace around it dropped, a sign taken off
IntBody(s) ==
    LET t == int_strip(s)
    IN  IF t /= << >> /\ t[1] \in {"+", "-"} THEN Tail(t) ELSE t

\* int(s) raises ValueError unless s is decimal digits, which single
\* underscores may separate, after an optional sign
int_raises(s) ==
    LET u == IntBody(s)
    IN  \/ u = << >>
        \/ \E i \in 1..Len(u) : u[i] \notin DecimalSet \cup {"_"}
        \/ u[1] = "_" \/ u[Len(u)] = "_"
        \/ \E i \in 1..(Len(u) - 1) : u[i] = "_" /\ u[i + 1] = "_"

RECURSIVE IntDigits(_)
IntDigits(d) ==
    IF d = << >> THEN 0
    ELSE 10 * IntDigits(SubSeq(d, 1, Len(d) - 1)) + DigitVal(d[Len(d)])

\* int(s) where it does not raise
int(s) ==
    LET t == int_strip(s)
        d == SelectSeq(IntBody(s), LAMBDA c : c /= "_")
    IN  IF t[1] = "-" THEN 0 - IntDigits(d) ELSE IntDigits(d)

(***************************************************************************)
(* previewBuilder.py: get_next_preview_dir.                                *)
(* The base location is a set of entries [name, isdir]; os.listdir gives   *)
(* the names, os.path.isdir the flag.                                      *)
(***************************************************************************)
RunPrefix == <<"p", "-">>

\* lines 16-19: the names that count as existing preview directories
existing_dirs(listing) ==
    {e.name : e \in {x \in listing :
        x.isdir /\ startswith(x.name, RunPrefix) /\ isdigit(Tail2(x.name))}}

\* line 26: f"p-{n:03d}"
FormatPreviewDir(n) == RunPrefix \o zfill(str(n), PadWidth)

\* what get_next_preview_dir gives when int() raises at line 25
ValueError == <<"<ValueError>">>

\* lines 21-26, with the first identifier skipped: a plausible slip
get_next_preview_dir_offbyone(listing) ==
    IF existing_dirs(listing) = {}
    THEN <<"p", "-", "0", "0", "1">>
    ELSE IF \E d \in existing_dirs(listing) : int_raises(Tail2(d)) THEN ValueError
    ELSE FormatPreviewDir(Max({int(Tail2(d)) : d \in existing_dirs(listing)}))

\* lines 21-26
get_next_preview_dir(listing) ==
    IF existing_dirs(listing) = {}
    THEN <<"p", "-", "0", "0", "1">>
    ELSE IF \E d \in existing_dirs(listing) : int_raises(Tail2(d)) THEN ValueError
    ELSE FormatPreviewDir(Max({int(Tail2(d)) : d \in existing_dirs(listing)}) + 1)

(***************************************************************************)
(* The three stages and the text their children write.                     *)
(***************************************************************************)
Stages == <<"mesh", "render", "encode">>

StageSet == {"mesh", "render", "encode"}

StageIndex(s) == CHOOSE i \in 1..3 : Stages[i] = s

\* the stream each monitoring loop reads (lines 73, 135, 201)
Monitored(s) == IF s = "encode" THEN "stderr" ELSE "stdout"

Unmonitored(s) == IF s = "encode" THEN "stdout" ELSE "stderr"

NL == "\n"

\* "x in line" for a literal x the model keeps as one token
contains(line, tok) == \E i \in 1..Len(line) : line[i] = tok

\* the last index of the run of tokens of S that starts at j (j-1 if none)
RunEnd(line, j, S) ==
    CHOOSE k \in (j - 1)..Len(line) :
        /\ \A i \in j..k : line[i] \in S
        /\ (k = Len(line) \/ line[k + 1] \notin S)

\* re.search(r'Progress = (\d+)%', line): group 1, or None
MeshMatches(line) ==
    {i \in 1..Len(line) :
        /\ line[i] = "Progress ="
        /\ i + 1 <= Len(line) /\ line[i + 1] = " "
        /\ RunEnd(line, i + 2, DecimalSet) >= i + 2
        /\ RunEnd(line, i + 2, DecimalSet) < Len(line)
        /\ line[RunEnd(line, i + 2, DecimalSet) + 1] = "%"}

mesh_search(line) ==
    IF MeshMatches(line) = {} THEN None
    ELSE LET i == CHOOSE m \in MeshMatches(line) : \A n \in MeshMatches(line) : m <= n
         IN  SubSeq(line, i + 2, RunEnd(line, i + 2, DecimalSet))

\* re.search(r'Fra:(\d+)', line): group 1, or None
FrameMatches(line) ==
    {i \in 1..Len(line) :
        line[i] = "Fra:" /\ RunEnd(line, i + 1, DecimalSet) >= i + 1}

frame_search(line) ==
    IF FrameMatches(line) = {} THEN None
    ELSE LET i == CHOOSE m \in FrameMatches(line) : \A n \in FrameMatches(line) : m <= n
         IN  SubSeq(line, i + 1, RunEnd(line, i + 1, DecimalSet))

\* re.search(r'frame=\s*(\d+)', line): group 1, or None
EncodeMatches(line) ==
    {i \in 1..Len(line) :
        /\ line[i] = "frame="
        /\ LET d == RunEnd(line, i + 1, Whitespace) + 1
           IN  RunEnd(line, d, DecimalSet) >= d}

encode_search(line) ==
    IF EncodeMatches(line) = {} THEN None
    ELSE LET i == CHOOSE m \in EncodeMatches(line) : \A n \in EncodeMatches(line) : m <= n
             d == RunEnd(line, i + 1, Whitespace) + 1
         IN  SubSeq(line, d, RunEnd(line, d, DecimalSet))

\* line 210: min(100, int((frame / 180) * 100)); the float product floors to
\* the integer quotient for every frame below 180 and is at least 100 above
encode_progress(frame) == Min2(EncodeTotal, (frame * 100) \div EncodeFrames)

\* lines 88, 140: "Error" in line or "Warning" in line
HasMarker(line) == contains(line, "Error") \/ contains(line, "Warning")

ErrLine == <<"Error", " ", "x", NL>>
PlainLine == <<"x", NL>>

\* what a child may write on the stream the loop reads
MonitoredVocab(s, rich) ==
    IF ~rich THEN {PlainLine}
    ELSE IF s = "mesh" THEN
        { <<"Progress =", " ", "5", "0", "%", NL>>,
          <<"Progress =", " ", "1", "5", "0", "%", NL>>,
          ErrLine }
    ELSE IF s = "render" THEN
        { <<"Fra:", "0", " ", "x", NL>>,
          <<"Fra:">> \o str(FrameEnd) \o <<" ", "x", NL>>,
          ErrLine }
    ELSE
        { <<"frame=", " ", "\t", "9", "0", " ", "x", NL>>,
          <<"frame=", "2", "0", "7", NL>>,
          ErrLine }

\* and on the other stream
UnmonitoredVocab(s, rich) == IF rich THEN {PlainLine, ErrLine} ELSE {PlainLine}

(***************************************************************************)
(* State.                                                                  *)
(***************************************************************************)
VARIABLES
    sched,        \* how invocations are started: "single", "scan", "seq", "race"
    baseExists,   \* the base output location exists
    entries,      \* its children: a set of [name, isdir]
    files,        \* the other paths that exist (inputs and stage artifacts)
    pc,           \* each invocation's position in main()
    args,         \* argparse namespace of each invocation
    preview_dir,  \* main's preview_dir
    preview_path, \* main's preview_path
    stage,        \* the stage main is in
    process,      \* the Popen object and its child
    pbar,         \* the tqdm bar of the running stage
    last,         \* last_progress / last_frame of the running loop
    cmds,         \* the argument vector each stage was spawned with
    returncodes,  \* the exit status each stage's child ended with
    exitcode,     \* the exit status of the invocation
    frames,       \* the frame ranges rendered: a set of [path, frame_start, frame_end]
    spawns,       \* the stages each invocation has spawned, in order
    closedBars,   \* the stages whose progress bar has been closed, in order
    forwarded,    \* the lines the running stage's loop has printed
    reported,     \* the total processing time has been printed
    argv          \* the command line of each invocation

vars == <<sched, baseExists, entries, files, pc, args, preview_dir, preview_path,
          stage, process, pbar, last, cmds, returncodes, exitcode,
          frames, spawns, closedBars, forwarded, reported, argv>>

\* an attribute that holds no int yet (process.returncode before poll sees the exit)
Unset == << >>

\* eof: the child has closed the stream the loop reads; held: the streams a
\* descendant of the child keeps open after the child's exit; emitted: the
\* lines with an error or warning marker the child has written, by stream
NoProcess ==
    [alive |-> FALSE, status |-> Unset, returncode |-> Unset,
     stdout |-> << >>, stderr |-> << >>, pending |-> << >>, written |-> 0,
     eof |-> FALSE, held |-> {}, made |-> 0,
     emitted |-> [stdout |-> << >>, stderr |-> << >>]]

NoBar == [total |-> 0, n |-> 0, closed |-> TRUE]

NoArgs ==
    [source_path |-> None, usdz_path |-> None, output_path |-> None,
     preview |-> FALSE, final |-> FALSE, base_blend |-> None, blender_path |-> None,
     width |-> << >>, height |-> << >>]

NoStage == "none"

\* the user's paths
BasePath == <<"out">>
SourcePath == <<"src">>
ModelPath == <<"model.usdz">>
BaseBlend == <<"turntable_base_v01.blend">>
BlenderPath == <<"/Applications/Blender.app/Contents/MacOS/Blender">>

\* the executables of lines 47 and 172; an executable is in files when Popen
\* can find it
MesherPath == <<"./groove-mesher">>
FfmpegPath == <<"ffmpeg">>

Tools == {MesherPath, BlenderPath, FfmpegPath}

\* parse_args (lines 28-39): the namespaces the command line can give
ArgSpace ==
    [source_path : {None, << >>, SourcePath},
     usdz_path : {None, << >>, ModelPath},
     output_path : {BasePath},
     preview : BOOLEAN, final : BOOLEAN,
     base_blend : {BaseBlend}, blender_path : {BlenderPath},
     width : {str(252)}, height : {str(384)}]

\* the namespaces tried where the streams are not what is checked
FewArgs ==
    {a \in ArgSpace :
        a.source_path /= << >> /\ a.usdz_path /= << >> /\ ~a.preview /\ ~a.final}

\* and where two invocations run at once or a base location is scanned
RaceArgs == {a \in FewArgs : a.source_path = None}

RichLines == sched = "single"

\* a command line: the options as parse_args would store them, output_path
\* None when --output_path is not given, and whether -h/--help stands first
NoArgv == [opts |-> NoArgs, help |-> FALSE]

ArgChoices == IF sched \in {"race", "scan"} THEN RaceArgs ELSE FewArgs

\* a width that type=int (line 35) does not take: int() does not drop the
\* separator that str.strip() would
BadWidth == <<"<U+001C>", "7">>

\* the namespaces of a single invocation: an empty path is tried without
\* quality flags only
SingleArgs ==
    {a \in ArgSpace :
        (a.source_path = << >> \/ a.usdz_path = << >>) => ~a.preview /\ ~a.final}

CommandLines ==
    IF sched = "single"
    THEN [opts : SingleArgs
                 \cup {[a EXCEPT !.output_path = None] : a \in SingleArgs}
                 \cup {[a EXCEPT !.width = BadWidth] : a \in SingleArgs},
          help : BOOLEAN]
    ELSE [opts : ArgChoices, help : {FALSE}]

\* a --blender_path that names no executable
MissingBlender == <<"blender">>

\* where invocations follow or overlap one another, the last of them is given
\* a model path and a Blender that is not there, and ends at its first Popen
LastRun(p) ==
    \/ sched = "race" /\ p = 2
    \/ sched = "seq" /\ p = MaxRuns

CommandLinesOf(p) ==
    IF LastRun(p)
    THEN [opts : {[a EXCEPT !.blender_path = MissingBlender] : a \in RaceArgs},
          help : {FALSE}]
    ELSE CommandLines

Entry(n, d) == [name |-> n, isdir |-> d]

\* base locations of the pipeline specifications
SmallBases ==
    { [exists |-> FALSE, listing |-> {}],
      [exists |-> TRUE, listing |-> {}],
      [exists |-> TRUE, listing |-> {Entry(FormatPreviewDir(1), TRUE)}],
      [exists |-> TRUE, listing |-> {Entry(FormatPreviewDir(1), TRUE),
                                     Entry(FormatPreviewDir(2), FALSE)}] }

\* names a base location may hold when the scan is what is checked
RunNames ==
    {FormatPreviewDir(n) : n \in 1..MaxStartNum}
        \cup { <<"p", "-", "5">>, <<"p", "-", "0", "0", "1", "0">> }

OtherNames == { <<"p", "-">>, <<"p", "-", "x", "1">>, <<"q", "-", "0", "0", "9">> }

ScanNames == RunNames \cup OtherNames

ScanKinds ==
    {k \in [ScanNames -> {"absent", "file", "dir"}] :
        \A n \in OtherNames : k[n] /= "file"}

\* directories whose number is written in digits that are not ASCII
UnicodeNames == { RunPrefix \o <<ArabicThree>>, RunPrefix \o <<SuperTwo>> }

ScanBases ==
    { [exists |-> TRUE,
       listing |-> {Entry(n, k[n] = "dir") : n \in {m \in ScanNames : k[m] /= "absent"}}] :
      k \in ScanKinds }
    \cup
    { [exists |-> TRUE,
       listing |-> {Entry(n, TRUE) : n \in U \cup R}] :
      U \in (SUBSET UnicodeNames) \ {{}}, R \in SUBSET {FormatPreviewDir(1)} }

RaceBases == {b \in SmallBases : b.exists /\ \A e \in b.listing : e.isdir}

InitWith(how, bases, inputs) ==
    /\ sched = how
    /\ \E b \in bases : baseExists = b.exists /\ entries = b.listing
    /\ files \in inputs
    /\ BasePath \in files => ~baseExists
    /\ pc = [p \in Procs |-> "idle"]
    /\ args = [p \in Procs |-> NoArgs]
    /\ preview_dir = [p \in Procs |-> << >>]
    /\ preview_path = [p \in Procs |-> << >>]
    /\ stage = [p \in Procs |-> NoStage]
    /\ process = [p \in Procs |-> NoProcess]
    /\ pbar = [p \in Procs |-> NoBar]
    /\ last = [p \in Procs |-> 0]
    /\ cmds = [p \in Procs |-> [s \in StageSet |-> << >>]]
    /\ returncodes = [p \in Procs |-> [s \in StageSet |-> Unset]]
    /\ exitcode = [p \in Procs |-> Unset]
    /\ frames = {}
    /\ spawns = [p \in Procs |-> << >>]
    /\ closedBars = [p \in Procs |-> << >>]
    /\ forwarded = [p \in Procs |-> << >>]
    /\ reported = [p \in Procs |-> FALSE]
    /\ argv = [p \in Procs |-> NoArgv]

AllInputs == {SourcePath, ModelPath, BaseBlend}

\* the input files and executables present when an invocation starts: all,
\* all but one executable, no input file
UserInputs ==
    {AllInputs \cup Tools, Tools, AllInputs \cup Tools \cup {BasePath}}
        \cup {(AllInputs \cup Tools) \ {f} : f \in Tools}

Init == InitWith("single", SmallBases, UserInputs)

InitScan == InitWith("scan", ScanBases, {AllInputs \cup Tools})

InitSeq == InitWith("seq", SmallBases, {AllInputs \cup Tools})

InitRace == InitWith("race", RaceBases, {AllInputs \cup Tools})

(***************************************************************************)
(* main(): lines 238-293.                                                  *)
(***************************************************************************)
\* sys.exit(code), or an uncaught exception (code 1): the process is gone
Exit(p, code) ==
    /\ pc' = [pc EXCEPT ![p] = "exited"]
    /\ exitcode' = [exitcode EXCEPT ![p] = <<code>>]
    /\ process' = [process EXCEPT ![p] = NoProcess]
    /\ pbar' = [pbar EXCEPT ![p] = NoBar]
    /\ last' = [last EXCEPT ![p] = 0]
    /\ stage' = [stage EXCEPT ![p] = NoStage]

\* which invocation may start next
MayStart(p) ==
    CASE sched \in {"single", "scan"} -> p = 1
      [] sched = "seq" -> \A q \in Procs : q < p => pc[q] = "exited"
      [] OTHER -> p \in {1, 2} /\ \A q \in Procs : q < p => pc[q] /= "idle"

\* parse_args, lines 28-39: the statuses argparse can end the process with.
\* --help prints the usage and exits 0 where it stands; a value type=int does
\* not take is an error (status 2) where it stands; a missing required
\* --output_path is an error found after the last argument.
ParseExits(cl) ==
    IF cl.help THEN {0}
    ELSE IF int_raises(cl.opts.width) \/ int_raises(cl.opts.height)
              \/ cl.opts.output_path = None THEN {2}
    ELSE {}

\* line 240
Start(p) ==
    /\ pc[p] = "idle"
    /\ MayStart(p)
    /\ \E cl \in CommandLinesOf(p) :
          /\ argv' = [argv EXCEPT ![p] = cl]
          /\ \/ /\ ParseExits(cl) = {}
                /\ args' = [args EXCEPT ![p] = cl.opts]
                /\ pc' = [pc EXCEPT ![p] = "validate"]
                /\ UNCHANGED <<stage, process, pbar, last, exitcode>>
             \/ /\ \E code \in ParseExits(cl) : Exit(p, code)
                /\ UNCHANGED args
    /\ UNCHANGED <<sched, baseExists, entries, files, preview_dir, preview_path,
                   cmds, returncodes,
                   frames, spawns, closedBars, forwarded, reported>>

\* lines 243-253: the three validation errors
ArgsRejected(a) ==
    \/ ~Truthy(a.source_path) /\ ~Truthy(a.usdz_path)
    \/ Truthy(a.source_path) /\ Truthy(a.usdz_path)
    \/ a.final /\ a.preview

\* line 256 reading the preview flag instead
is_preview_flag(a) == a.preview

\* line 256
is_preview(a) == ~a.final

Validate(p) ==
    /\ pc[p] = "validate"
    /\ IF ArgsRejected(args[p])
       THEN /\ Exit(p, 1)
            /\ UNCHANGED <<sched, argv, baseExists, entries, files, args, preview_dir,
                           preview_path, cmds, returncodes>>
       ELSE /\ pc' = [pc EXCEPT ![p] = "alloc"]
            /\ UNCHANGED <<sched, argv, baseExists, entries, files, args, preview_dir,
                           preview_path, stage, process, pbar, last, cmds,
                           returncodes, exitcode>>
    /\ UNCHANGED <<frames, spawns, closedBars, forwarded, reported>>

\* lines 13-14: os.makedirs(base_path) raises FileExistsError when the base
\* path names an existing file
base_is_file(a) == a.output_path \in files

\* lines 259-260: get_next_preview_dir(args.output_path), lines 11-26
\* neither the FileExistsError of line 14 nor the ValueError of line 25 is
\* caught: traceback, exit status 1
Alloc(p) ==
    /\ pc[p] = "alloc"
    /\ baseExists' = (baseExists \/ ~base_is_file(args[p]))
    /\ IF base_is_file(args[p]) \/ get_next_preview_dir(entries) = ValueError
       THEN /\ Exit(p, 1)
            /\ UNCHANGED <<preview_dir, preview_path>>
       ELSE /\ preview_dir' = [preview_dir EXCEPT ![p] = get_next_preview_dir(entries)]
            /\ preview_path' = [preview_path EXCEPT ![p] =
                                    join(args[p].output_path, get_next_preview_dir(entries))]
            /\ pc' = [pc EXCEPT ![p] = "mkroot"]
            /\ UNCHANGED <<stage, process, pbar, last, exitcode>>
    /\ UNCHANGED <<sched, argv, entries, files, args, cmds, returncodes,
                   frames, spawns, closedBars, forwarded, reported>>

\* os.makedirs(path, exist_ok=False) raises when the directory is already there
makedirs_fails_strict(listing, name) == \E e \in listing : e.name = name

\* os.makedirs(path, exist_ok=True) raises FileExistsError only for a non-directory
makedirs_fails(listing, name) == \E e \in listing : e.name = name /\ ~e.isdir

\* line 263 with the creation left out
makedirs_noop(listing, name) == listing

\* line 263: what os.makedirs(path, exist_ok=True) leaves when it succeeds
makedirs(listing, name) == listing \cup {Entry(name, TRUE)}

\* line 263, then the branch of line 266
MkRoot(p) ==
    /\ pc[p] = "mkroot"
    /\ IF makedirs_fails(entries, preview_dir[p])
       THEN /\ Exit(p, 1)
            /\ UNCHANGED <<sched, argv, baseExists, entries, files, args, preview_dir,
                           preview_path, cmds, returncodes>>
       ELSE /\ entries' = makedirs(entries, preview_dir[p])
            /\ stage' = [stage EXCEPT ![p] =
                            IF Truthy(args[p].source_path) THEN "mesh" ELSE "render"]
            /\ args' = [args EXCEPT ![p].output_path =
                            IF Truthy(args[p].source_path) THEN @ ELSE preview_path[p]]
            /\ pc' = [pc EXCEPT ![p] = "popen"]
            /\ UNCHANGED <<sched, argv, baseExists, files, preview_dir, preview_path,
                           process, pbar, last, cmds, returncodes, exitcode>>
    /\ UNCHANGED <<frames, spawns, closedBars, forwarded, reported>>

(***************************************************************************)
(* The command lines: lines 47-57, 104-114, 171-183.                       *)
(***************************************************************************)
\* line 268
usdz_output(p) == join(preview_path[p], preview_dir[p] \o <<".usdz">>)

\* line 273: f"{preview_dir}.usdzpreview.usdz"
usdz_preview(p) == join(preview_path[p], preview_dir[p] \o <<".usdz", "preview.usdz">>)

\* line 285, built from the mutated args.output_path and the run name again
webm_path_rejoined(p) ==
    join(join(args[p].output_path, preview_dir[p]), preview_dir[p] \o <<".webm">>)

\* line 285
webm_path(p) == join(preview_path[p], preview_dir[p] \o <<".webm">>)

\* line 282
renders_path(p) == join(preview_path[p], <<"renders">>)

groove_mesher_cmd(source_path, output_path, preview) ==
    << <<"./groove-mesher">>, source_path, output_path,
       IF preview THEN <<"--", "create-preview">> ELSE <<"--", "create-final-model">> >>

blender_cmd(a) ==
    << a.blender_path, <<"--", "background">>, <<"--", "python">>,
       <<"createTurntable.py">>, <<"--">>,
       <<"--", "usdz_path">>, a.usdz_path,
       <<"--", "output_path">>, a.output_path,
       <<"--", "width">>, str(int(a.width)),
       <<"--", "height">>, str(int(a.height)),
       <<"--", "base_blend">>, a.base_blend >>

ffmpeg_cmd(input_path, output_path) ==
    << <<"ffmpeg">>, <<"-y">>, <<"-framerate">>, str(30),
       <<"-i">>, join(input_path, <<"preview.%04d.jpg">>),
       <<"-c:v">>, <<"libvpx">>, <<"-auto-alt-ref">>, str(0),
       <<"-pix_fmt">>, <<"yuva420p">>,
       <<"-metadata:s:v:0">>, <<"alpha_mode=1">>,
       <<"-crf">>, str(4), <<"-b:v">>, <<"10M">>, <<"-r">>, str(30),
       output_path >>

StageCmd(p) ==
    CASE stage[p] = "mesh" ->
            groove_mesher_cmd(args[p].source_path, usdz_output(p), is_preview(args[p]))
      [] stage[p] = "render" -> blender_cmd(args[p])
      [] OTHER -> ffmpeg_cmd(renders_path(p), webm_path(p))

\* tqdm(total=...): lines 68, 129, 195
StageTotal(s) ==
    CASE s = "mesh" -> MeshTotal
      [] s = "render" -> RenderTotal
      [] OTHER -> EncodeTotal

\* last_progress = 0 (lines 70, 197), last_frame = -1 (line 131)
InitialLast(s) == IF s = "render" THEN -1 ELSE 0

\* subprocess.Popen and the progress bar: lines 59-70, 120-131, 186-197
\* Popen raises FileNotFoundError, which nothing catches (traceback, exit
\* status 1), when the executable is not there: no child, no progress bar
Popen(p) ==
    /\ pc[p] = "popen"
    /\ IF StageCmd(p)[1] \notin files
       THEN /\ Exit(p, 1)
            /\ UNCHANGED <<spawns, forwarded, cmds>>
       ELSE /\ process' = [process EXCEPT ![p] =
                    [NoProcess EXCEPT !.alive = TRUE]]
            /\ spawns' = [spawns EXCEPT ![p] = Append(@, stage[p])]
            /\ forwarded' = [forwarded EXCEPT ![p] = << >>]
            /\ cmds' = [cmds EXCEPT ![p][stage[p]] = StageCmd(p)]
            /\ pbar' = [pbar EXCEPT ![p] =
                    [total |-> StageTotal(stage[p]), n |-> 0, closed |-> FALSE]]
            /\ last' = [last EXCEPT ![p] = InitialLast(stage[p])]
            /\ pc' = [pc EXCEPT ![p] = "loop"]
            /\ UNCHANGED <<stage, exitcode>>
    /\ UNCHANGED <<sched, argv, baseExists, entries, files, args, preview_dir,
                   preview_path, returncodes,
                   frames, closedBars, reported>>

(***************************************************************************)
(* The monitoring loops: lines 72-90, 134-152, 200-214.                    *)
(***************************************************************************)
\* the counter a line carries, as <<v>>, or Unset
progress_of(s, line) ==
    CASE s = "mesh" ->
            IF contains(line, "Progress =") /\ mesh_search(line) /= None
            THEN <<int(mesh_search(line))>> ELSE Unset
      [] s = "render" ->
            IF contains(line, "Fra:") /\ frame_search(line) /= None
            THEN <<int(frame_search(line))>> ELSE Unset
      [] OTHER ->
            IF contains(line, "frame=") /\ encode_search(line) /= None
            THEN <<encode_progress(int(encode_search(line)))>> ELSE Unset

\* lines 82-84, 149-151, 211-213: the bar moves only on a larger counter
Advances(v, lastv) == v /= Unset /\ v[1] > lastv

\* readline (lines 73, 135, 201) returns once a line is there or the stream
\* has ended: every process that held its write end has closed it
ReadlineReturns(p) ==
    \/ process[p][Monitored(stage[p])] /= << >>
    \/ /\ process[p].eof \/ ~process[p].alive
       /\ Monitored(stage[p]) \notin process[p].held

\* process.poll(): the exit status, or None while the child runs
poll(p) == IF process[p].alive THEN Unset ELSE process[p].status

\* lines 74, 136, 202 without the poll: leave at end of stream
LoopBreaks_eofonly(line, polled) == line = << >>

\* lines 74, 136, 202: not line and process.poll() is not None
LoopBreaks(line, polled) == line = << >> /\ polled /= Unset

\* lines 88-90 and 140-142; the loop of create_webm (lines 200-214) prints nothing
loop_prints(s, line) == s \in {"mesh", "render"} /\ HasMarker(line)

\* one iteration: readline, then the break of lines 74, 136, 202 or the body
Loop(p) ==
    /\ pc[p] = "loop"
    /\ ReadlineReturns(p)
    /\ LET s == stage[p]
           mon == process[p][Monitored(s)]
           line == IF mon = << >> THEN << >> ELSE Head(mon)
           v == progress_of(s, line)
       IN  IF LoopBreaks(line, poll(p))
           THEN /\ process' = [process EXCEPT ![p].returncode = poll(p)]
                /\ pc' = [pc EXCEPT ![p] = "after"]
                /\ UNCHANGED <<pbar, last, forwarded>>
           ELSE /\ process' = [process EXCEPT ![p][Monitored(s)] =
                                    IF mon = << >> THEN mon ELSE Tail(mon)]
                /\ IF Advances(v, last[p])
                   THEN /\ pbar' = [pbar EXCEPT ![p].n = @ + (v[1] - last[p])]
                        /\ last' = [last EXCEPT ![p] = v[1]]
                   ELSE UNCHANGED <<pbar, last>>
                /\ forwarded' = [forwarded EXCEPT ![p] =
                                    IF loop_prints(s, line) THEN Append(@, strip(line))
                                    ELSE @]
                /\ UNCHANGED pc
    /\ UNCHANGED <<sched, argv, baseExists, entries, files, args, preview_dir,
                   preview_path, stage, cmds, returncodes, exitcode,
                   frames, spawns, closedBars, reported>>

\* lines 94, 157, 219 with the status compared to 1 instead of 0
StageFailed_only1(rc) == rc = <<1>>

\* lines 94, 157, 219: process.returncode != 0
StageFailed(rc) == rc /= <<0>>

\* lines 270-288 with the same stage run again: a retry
next_stage_repeat(s) == s

\* lines 270-288: main runs the renderer after the mesher, the encoder after
\* the renderer
next_stage(s) == IF s = "mesh" THEN "render" ELSE "encode"

\* pbar.close() placed after the status check: not reached on failure
ClosesBar_onsuccess(failed) == ~failed

\* lines 92, 154, 216: pbar.close() comes before the status check
ClosesBar(failed) == TRUE

\* pbar.close() and what follows the loop: lines 92-94 and 98-100 with
\* 270-276, 154-157 and 161-163 with 281-288, 216-219 and 223-225 with 290-293
AfterLoop(p) ==
    /\ pc[p] = "after"
    /\ LET failed == StageFailed(process[p].returncode)
       IN  /\ closedBars' = [closedBars EXCEPT ![p] =
                                 IF ClosesBar(failed) THEN Append(@, stage[p]) ELSE @]
           /\ pbar' = [pbar EXCEPT ![p] =
                           IF failed \/ stage[p] /= "encode"
                           THEN [@ EXCEPT !.closed = ClosesBar(failed)] ELSE NoBar]
           /\ IF failed
              THEN /\ pc' = [pc EXCEPT ![p] = "drain"]
                   /\ UNCHANGED <<args, reported, stage, process, last, exitcode>>
              ELSE IF stage[p] = "encode"
              THEN /\ pc' = [pc EXCEPT ![p] = "exited"]
                   /\ exitcode' = [exitcode EXCEPT ![p] = <<0>>]
                   /\ process' = [process EXCEPT ![p] = NoProcess]
                   /\ last' = [last EXCEPT ![p] = 0]
                   /\ stage' = [stage EXCEPT ![p] = NoStage]
                   /\ reported' = [reported EXCEPT ![p] = TRUE]
                   /\ UNCHANGED args
              ELSE /\ args' = IF stage[p] = "mesh"
                              THEN [args EXCEPT
                                      ![p].usdz_path = IF is_preview(args[p])
                                                       THEN usdz_preview(p)
                                                       ELSE usdz_output(p),
                                      ![p].output_path = preview_path[p]]
                              ELSE args
                   /\ stage' = [stage EXCEPT ![p] = next_stage(stage[p])]
                   /\ pc' = [pc EXCEPT ![p] = "popen"]
                   /\ UNCHANGED <<process, last, exitcode, reported>>
    /\ UNCHANGED <<sched, argv, baseExists, entries, files, preview_dir, preview_path,
                   cmds, returncodes, frames, spawns, forwarded>>

\* the stream the failure path reads: process.stderr at lines 96, 159 and
\* 221, which in create_webm is the stream its loop has read to the end
Drained(s) == "stderr"

\* read() (lines 96, 159, 221) returns at the end of the stream: the child
\* has exited and no descendant of it holds the stream open
ReadReturns(p) ==
    /\ ~process[p].alive
    /\ Drained(stage[p]) \notin process[p].held

\* the failure path, lines 95-97, 158-160, 220-222: standard error is read
\* to its end and printed after the loop, then sys.exit(1)
Drain(p) ==
    /\ pc[p] = "drain"
    /\ ReadReturns(p)
    /\ Exit(p, 1)
    /\ UNCHANGED <<sched, argv, baseExists, entries, files, args, preview_dir,
                   preview_path, cmds, returncodes, frames, spawns, closedBars,
                   forwarded, reported>>

(***************************************************************************)
(* The children.  The mesher and the encoder are external tools; the       *)
(* renderer runs createTurntable.py.                                       *)
(***************************************************************************)
\* the characters of a str, its tokens written one after the other
RECURSIVE Flatten(_)
Flatten(s) == IF s = << >> THEN "" ELSE Head(s) \o Flatten(Tail(s))

\* createTurntable.py line 26: argv[i].replace("--", "")
replace_dashes(arg) == SelectSeq(arg, LAMBDA t : t /= "--")

\* createTurntable.py lines 8-10: "--" in argv
HasSeparator(cmd) == \E i \in 1..Len(cmd) : cmd[i] = <<"--">>

\* createTurntable.py get_args, lines 12-27: the value given for a key
ScriptArg(cmd, key, default) ==
    IF ~HasSeparator(cmd) THEN default
    ELSE
    LET sep == CHOOSE i \in 1..Len(cmd) :
                   cmd[i] = <<"--">> /\ \A j \in 1..(i - 1) : cmd[j] /= <<"--">>
        script_argv == SubSeq(cmd, sep + 1, Len(cmd))
        hits == {i \in 1..Len(script_argv) :
                    /\ i % 2 = 1 /\ i + 1 <= Len(script_argv)
                    /\ Flatten(replace_dashes(script_argv[i])) = key}
    IN  IF hits = {} THEN default ELSE script_argv[Max(hits) + 1]

\* createTurntable.py lines 167-186, in the order of their effects: the
\* renders directory (line 170), the saved blend file (line 182), the frames
\* (line 185)
RenderSteps(cmd) ==
    LET out == ScriptArg(cmd, "output_path", <<"output">>)
        renders == join(out, <<"renders">>)
    IN  << renders, join(out, <<"turntable_output_v01.blend">>),
           join(renders, <<"preview.%04d.jpg">>) >>

\* what each child puts on disk, in the order it does
Steps(s, cmd) ==
    CASE s = "mesh" ->
            <<IF cmd[4] = <<"--", "create-preview">>
              THEN cmd[3] \o <<"preview.usdz">> ELSE cmd[3]>>
      [] s = "render" -> RenderSteps(cmd)
      [] OTHER -> <<cmd[Len(cmd)]>>

\* what each child leaves on disk when it produces its output
Artifacts(s, cmd) == {Steps(s, cmd)[i] : i \in 1..Len(Steps(s, cmd))}

\* createTurntable.py main: the exits of lines 190-201, 45-47 and 96-98, the
\* silent return of lines 106-108 and 214-215 (status 0, nothing made), and
\* the render of lines 209-213, which may end after any of its effects
RenderOutcomes(cmd) ==
    IF \/ ~HasSeparator(cmd)
       \/ ScriptArg(cmd, "base_blend", BaseBlend) \notin files
       \/ ScriptArg(cmd, "usdz_path", None) \notin files
    THEN {[status |-> 1, made |-> {}]}
    ELSE {[status |-> st, made |-> {RenderSteps(cmd)[i] : i \in 1..k}] :
             st \in {0, 1}, k \in 0..3}

\* the exit status of a child and the paths it leaves behind
Outcomes(s, cmd) ==
    IF s = "render" THEN RenderOutcomes(cmd)
    ELSE [status : IF s = "mesh" THEN {0, 2} ELSE {0, 1},
          made : {{}, Artifacts(s, cmd)}]

Streams == {"stdout", "stderr"}

\* the streams a descendant may hold open past the exit of a child
HeldChoices == SUBSET Streams

Vocab(s, stream) ==
    IF stream = Monitored(s) THEN MonitoredVocab(s, RichLines)
    ELSE UnmonitoredVocab(s, RichLines)

\* the child writes a line; a write to a full pipe blocks it
ChildWrite(p) ==
    /\ process[p].alive
    /\ process[p].pending = << >>
    /\ process[p].written < MaxLines
    /\ \E stream \in Streams : \E line \in Vocab(stage[p], stream) :
          /\ ~(process[p].eof /\ stream = Monitored(stage[p]))
          /\ process' = [process EXCEPT
              ![p].written = @ + 1,
              ![p].emitted[stream] = IF HasMarker(line) THEN Append(@, line) ELSE @,
              ![p][stream] = IF Len(@) < PipeCap THEN Append(@, line) ELSE @,
              ![p].pending = IF Len(process[p][stream]) < PipeCap THEN << >>
                             ELSE <<[stream |-> stream, line |-> line]>>]
    /\ UNCHANGED <<sched, argv, baseExists, entries, files, pc, args, preview_dir,
                   preview_path, stage, pbar, last, cmds, returncodes, exitcode,
                   frames, spawns, closedBars, forwarded, reported>>

\* the blocked write goes through once the reader has made room
ChildUnblock(p) ==
    /\ process[p].alive
    /\ process[p].pending /= << >>
    /\ LET w == process[p].pending[1]
       IN  /\ Len(process[p][w.stream]) < PipeCap
           /\ process' = [process EXCEPT
                  ![p][w.stream] = Append(@, w.line),
                  ![p].pending = << >>]
    /\ UNCHANGED <<sched, argv, baseExists, entries, files, pc, args, preview_dir,
                   preview_path, stage, pbar, last, cmds, returncodes, exitcode,
                   frames, spawns, closedBars, forwarded, reported>>

\* the child closes the stream the loop reads and keeps running
ChildClose(p) ==
    /\ process[p].alive
    /\ ~process[p].eof
    /\ process[p].pending = << >>
    /\ process' = [process EXCEPT ![p].eof = TRUE]
    /\ UNCHANGED <<sched, argv, baseExists, entries, files, pc, args, preview_dir,
                   preview_path, stage, pbar, last, cmds, returncodes, exitcode,
                   frames, spawns, closedBars, forwarded, reported>>

\* createTurntable.py lines 173-179: the frame range a render covers
RenderedRange(cmd) ==
    [path |-> RenderSteps(cmd)[1], frame_start |-> FrameStart, frame_end |-> FrameEnd]

\* the descendant that held the child's streams open ends
HelperExit(p) ==
    /\ process[p].held /= {}
    /\ process' = [process EXCEPT ![p].held = {}]
    /\ UNCHANGED <<sched, argv, baseExists, entries, files, pc, args, preview_dir,
                   preview_path, stage, pbar, last, cmds, returncodes, exitcode,
                   frames, spawns, closedBars, forwarded, reported>>

\* what the child has put on disk so far
MadeSoFar(p) ==
    {Steps(stage[p], cmds[p][stage[p]])[i] : i \in 1..process[p].made}

\* the living child puts the next of its outputs on disk: for the renderer
\* os.makedirs (createTurntable.py line 40), the save (line 164), the render
\* (line 185), between its writes to the pipe
ChildMake(p) ==
    /\ process[p].alive
    /\ process[p].pending = << >>
    /\ \E o \in Outcomes(stage[p], cmds[p][stage[p]]) :
          Cardinality(o.made) > process[p].made
    /\ LET k == process[p].made + 1
           cmd == cmds[p][stage[p]]
       IN  /\ files' = files \cup {Steps(stage[p], cmd)[k]}
           /\ frames' = IF stage[p] = "render" /\ k = 3
                        THEN frames \cup {RenderedRange(cmd)}
                        ELSE frames
           /\ process' = [process EXCEPT ![p].made = k]
    /\ UNCHANGED <<sched, argv, baseExists, entries, pc, args, preview_dir,
                   preview_path, stage, pbar, last, cmds, returncodes, exitcode,
                   spawns, closedBars, forwarded, reported>>

\* the child exits with what it has made; its ends of the pipes are closed,
\* and a descendant of it may keep some of them open
ChildExit(p) ==
    /\ process[p].alive
    /\ process[p].pending = << >>
    /\ \E o \in Outcomes(stage[p], cmds[p][stage[p]]) : \E h \in HeldChoices :
          /\ o.made = MadeSoFar(p)
          /\ process' = [process EXCEPT ![p].alive = FALSE, ![p].eof = TRUE,
                                           ![p].held = h, ![p].made = 0, ![p].written = 0,
                                           ![p].status = <<o.status>>]
          /\ returncodes' = [returncodes EXCEPT ![p][stage[p]] = <<o.status>>]
    /\ UNCHANGED <<sched, argv, baseExists, entries, files, pc, args, preview_dir,
                   preview_path, stage, pbar, last, cmds, exitcode, frames,
                   spawns, closedBars, forwarded, reported>>

Next ==
    \E p \in Procs :
        \/ Start(p)
        \/ Validate(p)
        \/ Alloc(p)
        \/ MkRoot(p)
        \/ Popen(p)
        \/ Loop(p)
        \/ AfterLoop(p)
        \/ Drain(p)
        \/ ChildWrite(p)
        \/ ChildMake(p)
        \/ ChildUnblock(p)
        \/ ChildClose(p)
        \/ ChildExit(p)
        \/ HelperExit(p)

Spec == Init /\ [][Next]_vars

SpecScan == InitScan /\ [][Next]_vars

SpecSeq == InitSeq /\ [][Next]_vars

SpecRace == InitRace /\ [][Next]_vars

(***************************************************************************)
(* Vocabulary of the properties.                                           *)
(***************************************************************************)
Spawned(p, s) == cmds[p][s] /= << >>

LaterStages(s) == {t \in StageSet : StageIndex(t) > StageIndex(s)}

ExitedNonzero(p, s) == returncodes[p][s] /= Unset /\ returncodes[p][s] /= <<0>>

\* the run's root directory was created and main went on to its stages
RootMade(p) == pc[p] \in {"popen", "loop", "after", "drain"} \/ \E s \in StageSet : Spawned(p, s)

RunNumber(name) == int(Tail2(name))

\* C1: once a stage's child has exited with a nonzero status, no later stage
\* has been spawned, the invocation never ends with status 0, and it has
\* either ended with status 1 or is on the way there: it reads what is left
\* in the closed pipes, leaves the loop and drains the other stream, and the
\* only thing it can be waiting for is a process the child started that
\* still holds the stream being read.
C1_FailFast ==
    \A p \in Procs : \A s \in StageSet :
        ExitedNonzero(p, s) =>
            /\ \A t \in LaterStages(s) : ~Spawned(p, t)
            /\ exitcode[p] /= <<0>>
            /\ \/ pc[p] = "exited" /\ exitcode[p] = <<1>>
               \/ /\ pc[p] = "loop" /\ stage[p] = s
                  /\ ReadlineReturns(p) \/ Monitored(s) \in process[p].held
               \/ pc[p] = "after" /\ stage[p] = s
               \/ /\ pc[p] = "drain" /\ stage[p] = s
                  /\ ReadReturns(p) \/ Drained(s) \in process[p].held

C1_Witness ==
    \E p \in Procs :
        /\ returncodes[p]["mesh"] = <<2>>
        /\ pc[p] = "exited" /\ exitcode[p] = <<1>>
        /\ ~Spawned(p, "render") /\ ~Spawned(p, "encode")
        /\ forwarded[p] /= << >>

\* C2: no stage reaches a state in which the child is blocked writing to the
\* stream the loop does not read while the loop waits for the one it reads.
Stalled(p) ==
    /\ pc[p] = "loop"
    /\ process[p].alive
    /\ ~ReadlineReturns(p)
    /\ process[p].pending /= << >>
    /\ process[p].pending[1].stream = Unmonitored(stage[p])

C2_NeverStalls == \A p \in Procs : ~Stalled(p)

\* the artifact each stage declares: lines 268-273, 282 with 174, 285
DeclaredArtifact(p, s) ==
    CASE s = "mesh" -> IF is_preview(args[p]) THEN usdz_preview(p) ELSE usdz_output(p)
      [] s = "render" -> join(renders_path(p), <<"preview.%04d.jpg">>)
      [] OTHER -> webm_path(p)

\* C3: a stage whose child exited with status zero without leaving its
\* artifact counts as failed: no later stage is spawned and the invocation
\* does not end with status 0.
C3_MissingArtifactFails ==
    \A p \in Procs : \A s \in StageSet :
        (returncodes[p][s] = <<0>> /\ DeclaredArtifact(p, s) \notin files) =>
            /\ \A t \in LaterStages(s) : ~Spawned(p, t)
            /\ exitcode[p] /= <<0>>

\* C4: the amount reported to a stage's progress bar never exceeds the
\* stage's total.
C4_WithinTotal == \A p \in Procs : pbar[p].n <= pbar[p].total

\* an invocation the validation must reject
Conflicting(a) ==
    \/ Truthy(a.source_path) /\ Truthy(a.usdz_path)
    \/ ~Truthy(a.source_path) /\ ~Truthy(a.usdz_path)
    \/ a.preview /\ a.final

\* C5: an invocation whose command line gives both input modes, neither, or
\* both quality flags ends only with status 1, and no step it takes creates
\* the base location, adds an entry or a file, or spawns a child.
C5_RejectedBeforeEffects ==
    [][\A p \in Procs :
          (pc'[p] /= pc[p] /\ Conflicting(argv'[p].opts)) =>
              /\ pc'[p] \in {"validate", "exited"}
              /\ (pc'[p] = "exited" => exitcode'[p] = <<1>>)
              /\ UNCHANGED <<baseExists, entries, files, cmds, preview_dir>>]_vars

\* widest number and largest number a directory name of the checks carries
WidthCap == 4
NumberCap == 12

\* the numbers of the run directories present, read off the names by
\* formatting rather than parsing; a digit of another script counts as the
\* digit it is
RunNumbers(listing) ==
    {n \in 0..NumberCap :
        \E e \in listing :
            /\ e.isdir
            /\ \/ \E w \in 1..WidthCap : e.name = RunPrefix \o zfill(str(n), w)
               \/ n = 3 /\ e.name = RunPrefix \o <<ArabicThree>>}

\* the allocator was called: the command line was accepted and passed validation
AllocatorCalled(p) ==
    /\ pc[p] \notin {"idle", "validate", "alloc"}
    /\ ParseExits(argv[p]) = {}
    /\ ~ArgsRejected(argv[p].opts)

\* C6: the allocator returns the identifier numbered one more than the largest
\* existing run directory, p-001 when there is none; other entries do not
\* count, so whatever else the base location holds, an identifier is returned.
C6_NextIsMaxPlusOne ==
    \A p \in Procs :
        /\ AllocatorCalled(p) => preview_dir[p] /= << >>
        /\ pc[p] = "mkroot" =>
              preview_dir[p] =
                  IF RunNumbers(entries) = {} THEN <<"p", "-", "0", "0", "1">>
                  ELSE RunPrefix \o zfill(str(Max(RunNumbers(entries)) + 1), 3)

\* C7: of two invocations run one after the other, the later one is given a
\* larger run number than an earlier one that created its root directory.
C7_IdentifiersIncrease ==
    \A p \in Procs : \A q \in Procs :
        (p < q /\ RootMade(p) /\ preview_dir[q] /= << >>) =>
            /\ RunNumber(preview_dir[p]) < RunNumber(preview_dir[q])
            /\ preview_path[p] /= preview_path[q]

C7_Witness ==
    \E p \in Procs : \E q \in Procs :
        /\ p < q
        /\ exitcode[p] = <<1>> /\ Spawned(p, "mesh")
        /\ RootMade(q)
        /\ RunNumber(preview_dir[q]) = RunNumber(preview_dir[p]) + 1

\* C8: of two invocations at once that were given the same identifier, the
\* one that creates the root after the other has created it does not stop
\* there: it goes on to its stages in the same root directory.
C8_CollisionUndetected ==
    [][\A p \in Procs : \A q \in Procs :
          (/\ p /= q
           /\ pc[p] = "mkroot" /\ pc'[p] /= "mkroot"
           /\ preview_dir[q] = preview_dir[p]
           /\ pc[q] \notin {"idle", "validate", "alloc", "mkroot"}) =>
              /\ pc'[p] = "popen"
              /\ args'[p].output_path = args[q].output_path]_vars

C8_Witness ==
    /\ pc[1] = "loop" /\ process[1].alive /\ pc[2] = "popen"
    /\ preview_dir[1] = preview_dir[2]
    /\ preview_path[1] = preview_path[2]
    /\ args[1].output_path = args[2].output_path
    /\ ScriptArg(cmds[1]["render"], "output_path", None) = args[2].output_path

\* the path each stage reads, as the child was given it
InputOf(p, s) ==
    CASE s = "mesh" -> cmds[p][s][2]
      [] s = "render" -> ScriptArg(cmds[p][s], "usdz_path", None)
      [] OTHER -> cmds[p][s][6]

\* C9: no stage has been spawned whose input path does not exist.
C9_InputsExist ==
    \A p \in Procs : \A s \in StageSet :
        Spawned(p, s) => InputOf(p, s) \in files

\* C10: an invocation that has ended after spawning a tool, every tool being
\* there to be started and every tool it spawned having exited with status
\* zero, ended with status 0 and gave the encoder <base>/p-NNN/p-NNN.webm as
\* its output.
C10_SuccessPath ==
    \A p \in Procs :
        (/\ pc[p] = "exited"
         /\ {MesherPath, args[p].blender_path, FfmpegPath} \subseteq files
         /\ \E s \in StageSet : Spawned(p, s)
         /\ \A s \in StageSet : Spawned(p, s) => returncodes[p][s] = <<0>>) =>
            /\ exitcode[p] = <<0>>
            /\ Spawned(p, "encode")
            /\ cmds[p]["encode"][Len(cmds[p]["encode"])] =
                   BasePath \o <<"/">> \o preview_dir[p] \o <<"/">>
                       \o preview_dir[p] \o <<".webm">>

C10_Witness ==
    \E p \in Procs :
        /\ pc[p] = "exited" /\ exitcode[p] = <<0>>
        /\ Spawned(p, "mesh") /\ Spawned(p, "render") /\ Spawned(p, "encode")
        /\ args[p].final
        /\ preview_dir[p] = <<"p", "-", "0", "0", "2">>

\* the number of frames an inclusive frame range holds
FrameCount(r) == r.frame_end - r.frame_start + 1

\* C11: every frame range a render has covered holds as many frames as the
\* total of the render progress bar and as the denominator of the encoder's
\* progress.
C11_FrameCountIsTotal ==
    \A r \in frames :
        /\ FrameCount(r) = RenderTotal
        /\ FrameCount(r) = EncodeFrames

Stripped(lines) == [i \in DOMAIN lines |-> strip(lines[i])]

RECURSIVE IsSubsequence(_, _)
IsSubsequence(a, b) ==
    IF a = << >> THEN TRUE
    ELSE IF b = << >> THEN FALSE
    ELSE IF Head(a) = Head(b) THEN IsSubsequence(Tail(a), Tail(b))
    ELSE IsSubsequence(a, Tail(b))

\* C12: when a stage's loop has ended and its result is about to be
\* determined, every line with an error or warning marker its child wrote, on
\* either stream, has been printed by the loop, in the order of its stream.
C12_MarkersForwarded ==
    \A p \in Procs :
        pc[p] = "after" =>
            /\ \A stream \in Streams :
                  IsSubsequence(Stripped(process[p].emitted[stream]), forwarded[p])
            /\ Len(forwarded[p]) =
                  Len(process[p].emitted.stdout) + Len(process[p].emitted.stderr)

\* C13: no step removes a directory entry or a file, and an invocation that
\* ends with status 1 at a stage, its tool not started or its child failed,
\* leaves its run root in place.
C13_NothingDeleted ==
    [][/\ entries \subseteq entries'
       /\ files \subseteq files'
       /\ \A p \in Procs :
             (/\ pc[p] \in {"popen", "drain"}
              /\ pc'[p] = "exited" /\ exitcode'[p] = <<1>>) =>
                 Entry(preview_dir[p], TRUE) \in entries']_vars

C13_Witness ==
    \E p \in Procs :
        /\ pc[p] = "exited" /\ exitcode[p] = <<1>>
        /\ ExitedNonzero(p, "render")
        /\ Entry(preview_dir[p], TRUE) \in entries
        /\ DeclaredArtifact(p, "mesh") \in files
        /\ join(preview_path[p], <<"turntable_output_v01.blend">>) \in files
        /\ join(renders_path(p), <<"preview.%04d.jpg">>) \in files

\* C14: the stages an invocation has spawned are in the order mesh, render,
\* encode with none spawned twice, the child of every stage but the last
\* spawned has exited, and no child is running when the next is about to be
\* spawned.
C14_StagesInOrder ==
    \A p \in Procs :
        /\ \A i, j \in DOMAIN spawns[p] :
              i < j => StageIndex(spawns[p][i]) < StageIndex(spawns[p][j])
        /\ \A i \in DOMAIN spawns[p] :
              i < Len(spawns[p]) => returncodes[p][spawns[p][i]] /= Unset
        /\ pc[p] = "popen" => ~process[p].alive

C14_Witness ==
    \E p \in Procs :
        /\ spawns[p] = <<"mesh", "render", "encode">>
        /\ pc[p] = "loop"
        /\ process[p].alive

\* <base>/p-NNN/p-NNN<suffix>, written out
RunFile(p, suffix) ==
    BasePath \o <<"/">> \o preview_dir[p] \o <<"/">> \o preview_dir[p] \o suffix

\* C15: the mesher is spawned exactly when a source path was given, with the
\* output <base>/p-NNN/p-NNN.usdz and the preview flag exactly when final
\* quality was not asked for; the renderer is given
\* <base>/p-NNN/p-NNN.usdzpreview.usdz after a preview mesh,
\* <base>/p-NNN/p-NNN.usdz after a final one, and the user's model path when
\* no mesh ran.
C15_StageArguments ==
    \A p \in Procs :
        /\ spawns[p] /= << >> =>
              (spawns[p][1] = "mesh" <=> Truthy(args[p].source_path))
        /\ Spawned(p, "mesh") =>
              /\ cmds[p]["mesh"][2] = args[p].source_path
              /\ cmds[p]["mesh"][3] = RunFile(p, <<".usdz">>)
              /\ cmds[p]["mesh"][4] = IF args[p].final
                                      THEN <<"--", "create-final-model">>
                                      ELSE <<"--", "create-preview">>
        /\ Spawned(p, "render") =>
              ScriptArg(cmds[p]["render"], "usdz_path", None) =
                  IF ~Truthy(args[p].source_path) THEN ModelPath
                  ELSE IF args[p].final THEN RunFile(p, <<".usdz">>)
                  ELSE RunFile(p, <<".usdz", "preview.usdz">>)

C15_Witness ==
    \E p \in Procs :
        /\ Spawned(p, "mesh") /\ Spawned(p, "render")
        /\ ~args[p].final /\ ~args[p].preview
        /\ ScriptArg(cmds[p]["render"], "usdz_path", None) =
               RunFile(p, <<".usdz", "preview.usdz">>)

\* C16: no progress bar is closed twice; while a stage's loop runs or has just
\* ended, every bar but that stage's has been closed, and at every other
\* moment, the end of the invocation on success and on failure included,
\* every bar that was created has been closed.
C16_BarsFinalizedOnce ==
    \A p \in Procs :
        /\ \A i, j \in DOMAIN closedBars[p] :
              i /= j => closedBars[p][i] /= closedBars[p][j]
        /\ IF pc[p] \in {"loop", "after"}
           THEN closedBars[p] = SubSeq(spawns[p], 1, Len(spawns[p]) - 1)
           ELSE closedBars[p] = spawns[p]

C16_Witness ==
    \E p \in Procs :
        /\ pc[p] = "exited" /\ exitcode[p] = <<1>>
        /\ ExitedNonzero(p, "render")
        /\ closedBars[p] = <<"mesh", "render">>

\* C17: once an invocation is about to spawn its first child, and ever after,
\* its run root and the renders directory under it exist; an invocation that
\* ended without its run root having been made spawned nothing and ended with
\* status 1.
C17_RunDirsBeforeSpawn ==
    \A p \in Procs :
        /\ (pc[p] = "popen" \/ spawns[p] /= << >>) =>
              /\ Entry(preview_dir[p], TRUE) \in entries
              /\ renders_path(p) \in files
        /\ (/\ pc[p] = "exited"
            /\ preview_dir[p] /= << >>
            /\ Entry(preview_dir[p], TRUE) \notin entries) =>
              /\ spawns[p] = << >>
              /\ exitcode[p] = <<1>>

\* the stages the input mode asks for
RequiredStages(a) ==
    IF Truthy(a.source_path) THEN <<"mesh", "render", "encode">>
    ELSE <<"render", "encode">>

\* C18 as stated: an invocation has ended with status 0, or has printed its
\* total processing time, only after spawning exactly the stages its input
\* mode asks for, once each and in order, every one of their children having
\* exited with status zero.
C18_ZeroOnlyAfterAll ==
    \A p \in Procs :
        (exitcode[p] = <<0>> \/ reported[p]) =>
            /\ spawns[p] = RequiredStages(args[p])
            /\ \A i \in DOMAIN spawns[p] : returncodes[p][spawns[p][i]] = <<0>>
            /\ exitcode[p] = <<0>>

\* C18: an invocation that was not asked for its usage with --help has ended
\* with status 0 only after spawning exactly the stages its input mode asks
\* for, once each and in order, every one of their children having exited
\* with status zero; and only then has any invocation printed its total
\* processing time.
C18_ZeroOnlyAfterAllButHelp ==
    \A p \in Procs :
        ((exitcode[p] = <<0>> /\ ~argv[p].help) \/ reported[p]) =>
            /\ spawns[p] = RequiredStages(args[p])
            /\ \A i \in DOMAIN spawns[p] : returncodes[p][spawns[p][i]] = <<0>>
            /\ exitcode[p] = <<0>>

C18_Witness ==
    \E p \in Procs :
        /\ exitcode[p] = <<0>> /\ reported[p]
        /\ ~Truthy(args[p].source_path)
        /\ spawns[p] = <<"render", "encode">>

\* C19: the identifier the allocator has returned names no entry of the base
\* location, whatever the base location holds.
C19_IdentifierIsFresh ==
    \A p \in Procs :
        pc[p] = "mkroot" => \A e \in entries : e.name /= preview_dir[p]

\* C20: a stage's loop has ended only with its child exited, the stream it
\* reads empty and the child's exit status taken; and once the child has
\* exited and nothing holds the stream open, the loop's readline returns
\* and, the stream being empty, the loop ends.
C20_LoopEndsAtEofAndExit ==
    \A p \in Procs :
        /\ pc[p] = "after" =>
              /\ ~process[p].alive
              /\ process[p][Monitored(stage[p])] = << >>
              /\ process[p].status /= Unset
              /\ process[p].returncode = process[p].status
        /\ (/\ pc[p] = "loop" /\ ~process[p].alive
            /\ Monitored(stage[p]) \notin process[p].held) =>
              /\ ReadlineReturns(p)
              /\ process[p][Monitored(stage[p])] = << >> =>
                    LoopBreaks(<< >>, poll(p))

C20_Witness ==
    \E p \in Procs :
        /\ pc[p] = "after" /\ stage[p] = "encode"
        /\ process[p].held = {"stdout"}
        /\ process[p].status = <<0>>
        /\ pbar[p].n > 0

====
